---- MODULE Spec2Model ----
(***************************************************************************)
(* Notification and promotion fan-out of the sello marketplace server:     *)
(* server/controllers/notificationController.js and the promotion          *)
(* controller (src/unnamed/part_000).                                      *)
(*                                                                         *)
(* The document store is modelled by the sets `notifications` and          *)
(* `promotions`; every HTTP handler is one action that runs the handler    *)
(* to its response.  The inputs of a request (body, acting user, which     *)
(* downstream calls fail) are drawn with \E and recorded in `req`; the     *)
(* response is recorded in `res`, the socket events of the request in      *)
(* `emits`, the e-mails it sent in `mails` and the figures the promotion   *)
(* fan-out logs in `report`.                                               *)
(*                                                                         *)
(* The public promo-code endpoints (validatePromoCode, applyPromoCode) run *)
(* for several callers at once: `calls` holds, per caller, how far its     *)
(* request has got, so that the requests interleave at their awaits.       *)
(***************************************************************************)
EXTENDS Integers, Sequences, FiniteSets, TLC

VARIABLES users, notifications, nextId, promotions, creates, now,
          req, res, emits, mails, report, calls

vars == <<users, notifications, nextId, promotions, creates, now,
          req, res, emits, mails, report, calls>>

(***************************************************************************)
(* Bounds of the model.                                                    *)
(***************************************************************************)
\* Number of notification identifiers the store hands out in one behaviour.
MaxNotifs == 3
\* Largest value of the clock.
MaxTime == 2
\* Largest number of downstream calls (writes, sends) of one request that fail.
MaxFail == 1
\* Number of requests of one behaviour that create documents.
MaxCreates == 2
\* Number of callers of the public promo-code endpoints, one request each.
MaxCallers == 3

NULL == "null"

(***************************************************************************)
(* User accounts.  The handlers only read them.                            *)
(***************************************************************************)
\* Result order of User.find (natural order of the collection).
UserOrder == <<"i1", "i2", "i3", "d1", "a1">>

Universe == {UserOrder[k] : k \in 1..Len(UserOrder)}

\* Account roles of the User model: "individual", "dealer", "admin".
UserRole(u) ==
    CASE u \in {"i1", "i2", "i3"} -> "individual"
      [] u = "d1" -> "dealer"
      [] OTHER -> "admin"

UserStatus(u) == "active"

\* d1 has not verified the account; i3 has no e-mail address on file.
UserVerified(u) == u # "d1"

UserEmail(u) ==
    CASE u = "i1" -> "i1@sello"
      [] u = "i2" -> "i2@sello"
      [] u = "d1" -> "d1@sello"
      [] u = "a1" -> "a1@sello"
      [] OTHER -> NULL

\* An address no account has.
UnknownEmail == "nobody@sello"

\* recipient.includes("@")
IsEmailString(r) == r \in {"i1@sello", "i2@sello", "d1@sello", "a1@sello", UnknownEmail}

\* The populations a behaviour may start with.
Populations == {Universe, {"d1", "a1"}, {"a1"}}

\* User.find(query): the matching accounts in result order.
UserFind(matching) ==
    SelectSeq(UserOrder, LAMBDA u : u \in users /\ u \in matching)

Range(s) == {s[k] : k \in 1..Len(s)}

\* Array.prototype.slice(from, to) with 0-based, end-exclusive indices.
Slice(s, from, to) ==
    SubSeq(s, from + 1, IF to < Len(s) THEN to ELSE Len(s))

(***************************************************************************)
(* Requests, responses and the state after construction.                   *)
(***************************************************************************)
\* emit = -1: no emission throws; emit = k >= 0: the (k+1)-th emission throws.
NoFail == [create |-> FALSE, lookup |-> FALSE, writes |-> {}, sends |-> {},
           emit |-> -1]

\* A request body of createPromotion; 0 and NULL stand for a missing field.
NoBody == [title |-> FALSE, promoCode |-> NULL, discountType |-> NULL,
           discountValue |-> 0, usageLimit |-> 0, startDate |-> 0,
           endDate |-> 0, targetAudience |-> NULL, minPurchaseAmount |-> 0]

Request(op, actor) ==
    [op |-> op, actor |-> actor, id |-> 0, title |-> TRUE, recipient |-> NULL,
     audience |-> NULL, body |-> NoBody, io |-> TRUE, mail |-> FALSE,
     fail |-> NoFail]

Response(status, count) == [status |-> status, count |-> count]

NoReport == [totalUsers |-> -1, successfulNotifications |-> -1,
             successfulEmails |-> -1]

Callers == 1..MaxCallers

\* A caller that has sent no request yet.
NoCall == [pc |-> "idle", op |-> NULL, code |-> NULL, amount |-> 0,
           snap |-> {}, status |-> 0]

NoCalls == [c \in Callers |-> NoCall]

Init ==
    /\ users \in Populations
    /\ notifications = {}
    /\ nextId = 1
    /\ promotions = {}
    /\ creates = 0
    /\ now = 1
    /\ req = Request("none", NULL)
    /\ res = Response(0, 0)
    /\ emits = <<>>
    /\ mails = {}
    /\ report = NoReport
    /\ calls = NoCalls

\* No request is being answered.
Idle == req.op = "none"

\* The response has gone out: the record of the request is dropped.  The
\* handlers read none of req, res, emits, mails, report.
Finish ==
    /\ ~Idle
    /\ req' = Request("none", NULL)
    /\ res' = Response(0, 0)
    /\ emits' = <<>>
    /\ mails' = {}
    /\ report' = NoReport
    /\ UNCHANGED <<users, notifications, nextId, promotions, creates, now>>

\* Time passes between requests.
Tick ==
    /\ Idle
    /\ now < MaxTime
    /\ now' = now + 1
    /\ UNCHANGED <<users, notifications, nextId, promotions, creates,
                   req, res, emits, mails, report>>

(***************************************************************************)
(* The Notification collection.                                            *)
(***************************************************************************)
\* Defaults of the Notification schema for the fields a create call omits.
SchemaDefaults == [isRead |-> FALSE, readAt |-> 0]

\* The document Notification.create stores.
NewNotification(id, recipient, targetRole, type) ==
    [id |-> id, recipient |-> recipient, targetRole |-> targetRole,
     type |-> type, isRead |-> SchemaDefaults.isRead,
     readAt |-> SchemaDefaults.readAt]

\* Notification.findById
FindById(id) == {n \in notifications : n.id = id}

\* mongoose.Types.ObjectId.isValid: identifier 0 stands for a malformed one.
IsValidId(id) == id # 0

(***************************************************************************)
(* getUserNotifications: a query, it changes nothing.                      *)
(***************************************************************************)
\* Mutant: the listing leaves the broadcast records out.
VisibleTo_PersonalOnly(u, n) == n.recipient = u

\* finalQuery / totalQuery: personal and broadcast notifications.
VisibleTo(u, n) == n.recipient = u \/ n.recipient = NULL

\* Mutant: the count leaves the broadcast records out.
UnreadQuery_PersonalOnly(u, n) == n.recipient = u /\ n.isRead = FALSE

\* unreadQuery
UnreadQuery(u, n) ==
    \/ (n.recipient = u /\ n.isRead = FALSE)
    \/ (n.recipient = NULL /\ n.isRead = FALSE)

\* countDocuments(unreadQuery)
UnreadCount(u) == Cardinality({n \in notifications : UnreadQuery(u, n)})

\* The documents a cursor yields, newest first (sort createdAt: -1); every
\* matching document is yielded once.
RECURSIVE SortDesc(_)
SortDesc(S) ==
    IF S = {} THEN <<>>
    ELSE LET m == CHOOSE n \in S : \A o \in S : o.id <= n.id
         IN <<m>> \o SortDesc(S \ {m})

\* Notification.find(finalQuery) with the isRead filter of the query string
\* ("none" when the parameter is absent).
FindForUser(u, isRead) ==
    SortDesc({n \in notifications :
                /\ VisibleTo(u, n)
                /\ (isRead # "none" => n.isRead = (isRead = "true"))})

\* parseInt(req.query.limit) || 20
DefaultLimit == 20

\* .skip(skip).limit(limit)
Page(s, page, limit) == Slice(s, (page - 1) * limit, (page - 1) * limit + limit)

getUserNotifications(u, isRead, page, limit) ==
    [notifications |-> Page(FindForUser(u, isRead), page, limit),
     unreadCount |-> UnreadCount(u),
     total |-> Cardinality({n \in notifications : VisibleTo(u, n)})]

(***************************************************************************)
(* markAsRead, markAllAsRead, deleteNotification                           *)
(***************************************************************************)
\* Mutant: the access check lets every user through.
HasAccess_Open(n, u) == TRUE

\* The access check of markAsRead.
HasAccess(n, u) == ~(n.recipient # NULL /\ n.recipient # u)

\* Mutant: marking toggles the read flag.
MarkRead_Toggles(n) == [n EXCEPT !.isRead = ~n.isRead, !.readAt = now]

\* notification.isRead = true; notification.readAt = new Date()
MarkRead(n) == [n EXCEPT !.isRead = TRUE, !.readAt = now]

Answer(r, status, count) ==
    /\ req' = r
    /\ res' = Response(status, count)
    /\ emits' = <<>>
    /\ mails' = {}
    /\ report' = NoReport

MarkAsRead(u, id) ==
    /\ Idle
    /\ UNCHANGED <<users, nextId, promotions, creates, now>>
    /\ LET r == [Request("markAsRead", u) EXCEPT !.id = id] IN
       IF ~IsValidId(id)
       THEN Answer(r, 400, 0) /\ UNCHANGED notifications
       ELSE IF FindById(id) = {}
       THEN Answer(r, 404, 0) /\ UNCHANGED notifications
       ELSE LET n == CHOOSE m \in FindById(id) : TRUE IN
            IF ~HasAccess(n, u)
            THEN Answer(r, 403, 0) /\ UNCHANGED notifications
            ELSE /\ notifications' = (notifications \ {n}) \cup {MarkRead(n)}
                 /\ Answer(r, 200, 0)

\* Mutant: the bulk update also matches the records already read.
MarkAllFilter_IgnoresReadFlag(u, n) == n.recipient = u \/ n.recipient = NULL

\* Mutant: the bulk update matches the personal records only.
MarkAllFilter_PersonalOnly(u, n) == n.recipient = u /\ n.isRead = FALSE

\* The filter of the bulk update.
MarkAllFilter(u, n) ==
    (n.recipient = u \/ n.recipient = NULL) /\ n.isRead = FALSE

MarkAllAsRead(u) ==
    /\ Idle
    /\ notifications' =
          {IF MarkAllFilter(u, n) THEN MarkRead(n) ELSE n : n \in notifications}
    /\ Answer(Request("markAllAsRead", u), 200, 0)
    /\ UNCHANGED <<users, nextId, promotions, creates, now>>

DeleteNotification(u, id) ==
    /\ Idle
    /\ UNCHANGED <<users, nextId, promotions, creates, now>>
    /\ LET r == [Request("deleteNotification", u) EXCEPT !.id = id] IN
       IF UserRole(u) # "admin"
       THEN Answer(r, 403, 0) /\ UNCHANGED notifications
       ELSE IF ~IsValidId(id)
       THEN Answer(r, 400, 0) /\ UNCHANGED notifications
       ELSE IF FindById(id) = {}
       THEN Answer(r, 404, 0) /\ UNCHANGED notifications
       ELSE /\ notifications' = notifications \ FindById(id)
            /\ Answer(r, 200, 0)

(***************************************************************************)
(* createNotification                                                      *)
(***************************************************************************)
\* The downstream failures one request may meet: `writes` are the recipients
\* whose Notification.create rejects (NULL for the broadcast record).
\* `left` is how many more calls of the request may fail.
FailSets(S, left) == {F \in SUBSET S : Cardinality(F) <= left}

Lookups == {FALSE} \cup {MaxFail > 0}

\* roleMap[targetAudience] || null
RoleMap(audience) ==
    CASE audience \in {"buyers", "sellers"} -> "individual"
      [] audience = "dealers" -> "dealer"
      [] audience = "admins" -> "admin"
      [] OTHER -> NULL

TargetRole(audience, recipient) ==
    IF audience # NULL /\ audience # "all" /\ recipient = NULL
    THEN RoleMap(audience) ELSE NULL

\* User.find({role, status: "active", verified: true})
RoleAudience(role) ==
    UserFind({u \in Universe : /\ UserRole(u) = role
                                /\ UserStatus(u) = "active"
                                /\ UserVerified(u) = TRUE})

\* const batchSize (100 in the source; scaled so that an audience of the
\* model spans more than one batch).
batchSize == 2

\* Mutant: the loop ends after its first batch.
RunBatches_FirstBatchOnly(list, failing, i) ==
    LET batch == Slice(list, i, i + batchSize)
    IN [stored |-> SelectSeq(batch, LAMBDA u : u \notin failing),
        completed |-> Range(batch) \cap failing = {}]

\* The loop over the batches, from offset i on.  Every create of a batch is
\* started; Promise.all rejects when one of them does, which ends the loop.
\* Result: the recipients whose document was stored and whether the loop ran
\* to its end.
RECURSIVE RunBatches(_, _, _)
RunBatches(list, failing, i) ==
    IF i >= Len(list) THEN [stored |-> <<>>, completed |-> TRUE]
    ELSE LET batch == Slice(list, i, i + batchSize)
             done == SelectSeq(batch, LAMBDA u : u \notin failing)
         IN IF Range(batch) \cap failing # {}
            THEN [stored |-> done, completed |-> FALSE]
            ELSE LET rest == RunBatches(list, failing, i + batchSize)
                 IN [stored |-> done \o rest.stored, completed |-> rest.completed]

\* Mutant: every document is stored with the type "info".
Created_TypeInfo(recipients, targetRole, type) ==
    [k \in 1..Len(recipients) |->
        NewNotification(nextId + k - 1, recipients[k], targetRole, "info")]

\* The documents created for a list of recipients, identifiers in order.
Created(recipients, targetRole, type) ==
    [k \in 1..Len(recipients) |->
        NewNotification(nextId + k - 1, recipients[k], targetRole, type)]

Channel(room, key) == [room |-> room, key |-> key]

\* The emissions of createNotification, in order, for the created list.
EmitPlan(audience, list) ==
    (IF audience = "all" /\ Len(list) > 0 /\ list[1].recipient = NULL
     THEN <<Channel("role", "individual"), Channel("role", "dealer")>>
     ELSE LET personal == SelectSeq(list, LAMBDA n : n.recipient # NULL)
          IN [k \in 1..Len(personal) |-> Channel("user", personal[k].recipient)])
    \o (IF Len(list) > 0 THEN <<Channel("admin", "room")>> ELSE <<>>)

\* Mutant: a throwing emission is not noticed, every emission goes out.
Emitted_IgnoresThrow(plan, ioUp, emitFail) == IF ~ioUp THEN <<>> ELSE plan

\* What reaches the sockets: nothing without an io handle; the emissions up
\* to the one that throws otherwise.
Emitted(plan, ioUp, emitFail) ==
    IF ~ioUp THEN <<>>
    ELSE IF emitFail >= 0 /\ emitFail < Len(plan) THEN SubSeq(plan, 1, emitFail)
    ELSE plan

EmitFails(plan, ioUp, left) ==
    {-1} \cup {k \in 0..(Len(plan) - 1) : ioUp /\ left > 0}

\* The handler from the writes on: store the documents, emit, answer 201.
\* A rejected write throws to the handler's catch: 500.
WriteAndEmit(r, recipients, failing, completed, targetRole) ==
    LET list == Created(recipients, targetRole, "info")
        plan == EmitPlan(r.audience, list)
    IN /\ nextId + Len(list) - 1 <= MaxNotifs
       /\ creates < MaxCreates
       /\ creates' = creates + 1
       /\ notifications' = notifications \cup Range(list)
       /\ nextId' = nextId + Len(list)
       /\ IF ~completed
          THEN Answer([r EXCEPT !.fail.writes = failing], 500, 0)
          ELSE \E ioUp \in BOOLEAN : \E e \in EmitFails(plan, ioUp, MaxFail) :
                 /\ req' = [r EXCEPT !.io = ioUp, !.fail.emit = e]
                 /\ res' = Response(201, Len(list))
                 /\ emits' = Emitted(plan, ioUp, e)
                 /\ mails' = {}
                 /\ report' = NoReport

\* Mutant: one record per account instead of the single broadcast record.
BroadcastTargets_PerUser == UserFind(Universe)

\* The recipients of the single record written for everyone: recipient null.
BroadcastTargets == <<NULL>>

Rejected(r, status) ==
    /\ Answer(r, status, 0)
    /\ UNCHANGED <<notifications, nextId, creates>>

CreateNotification(actor, title, recipient, audience) ==
    /\ Idle
    /\ UNCHANGED <<users, promotions, now>>
    /\ LET r == [Request("createNotification", actor) EXCEPT
                   !.title = title, !.recipient = recipient,
                   !.audience = audience]
           targetRole == TargetRole(audience, recipient)
       IN
       IF UserRole(actor) # "admin" THEN Rejected(r, 403)
       ELSE IF ~title THEN Rejected(r, 400)
       ELSE IF recipient # NULL
       THEN IF IsEmailString(recipient)
            THEN \E lookup \in Lookups :
                   LET rl == [r EXCEPT !.fail.lookup = lookup] IN
                   IF lookup THEN Rejected(rl, 500)
                   ELSE IF \A u \in users : UserEmail(u) # recipient
                   THEN Rejected(rl, 400)
                   \* recipient = recipientUser._id assigns to a const
                   \* binding: a TypeError, caught by the handler's catch.
                   ELSE Rejected(rl, 500)
            ELSE \E failing \in FailSets({recipient}, MaxFail) :
                   WriteAndEmit(r, SelectSeq(<<recipient>>, LAMBDA x : x \notin failing),
                                failing, failing = {}, NULL)
       ELSE IF audience = "all" \/ targetRole = NULL
       THEN \E failing \in FailSets(Range(BroadcastTargets), MaxFail) :
              WriteAndEmit(r, SelectSeq(BroadcastTargets, LAMBDA x : x \notin failing),
                           failing, failing = {}, NULL)
       ELSE \E lookup \in Lookups :
              LET rl == [r EXCEPT !.fail.lookup = lookup]
                  found == RoleAudience(targetRole)
              IN IF lookup THEN Rejected(rl, 500)
                 ELSE IF Len(found) = 0 THEN Rejected(rl, 400)
                 ELSE \E failing \in FailSets(Range(found), MaxFail) :
                        LET run == RunBatches(found, failing, 0)
                        IN WriteAndEmit(rl, run.stored, failing, run.completed,
                                        targetRole)

(***************************************************************************)
(* createPromotion and sendPromotionNotifications                          *)
(***************************************************************************)
\* promoCode.toUpperCase().trim()
Normalize(code) ==
    CASE code \in {"SUMMER20", " summer20 ", "Summer20"} -> "SUMMER20"
      [] OTHER -> code

\* Mutant: the dates are not compared.
ValidatePromotion_NoDateCheck(b) ==
    IF \/ ~b.title \/ b.promoCode = NULL \/ b.discountType = NULL
       \/ b.discountValue = 0 \/ b.usageLimit = 0
       \/ b.startDate = 0 \/ b.endDate = 0
    THEN 400
    ELSE IF \E p \in promotions : p.promoCode = Normalize(b.promoCode)
    THEN 409
    ELSE 0

\* The validation of createPromotion: the status it rejects the body with,
\* 0 when the body passes.
ValidatePromotion(b) ==
    IF \/ ~b.title \/ b.promoCode = NULL \/ b.discountType = NULL
       \/ b.discountValue = 0 \/ b.usageLimit = 0
       \/ b.startDate = 0 \/ b.endDate = 0
    THEN 400
    ELSE IF b.startDate >= b.endDate THEN 400
    ELSE IF b.endDate < now THEN 400
    ELSE IF b.discountType = "percentage"
            /\ (b.discountValue < 0 \/ b.discountValue > 100)
    THEN 400
    ELSE IF b.discountType = "fixed" /\ b.discountValue < 0 THEN 400
    ELSE IF \E p \in promotions : p.promoCode = Normalize(b.promoCode)
    THEN 409
    ELSE 0

\* The document Promotion.create stores (usedCount from the schema default).
NewPromotion(b, actor) ==
    [promoCode |-> Normalize(b.promoCode),
     discountType |-> b.discountType,
     discountValue |-> b.discountValue,
     usageLimit |-> b.usageLimit,
     usedCount |-> 0,
     startDate |-> b.startDate,
     endDate |-> b.endDate,
     targetAudience |-> IF b.targetAudience = NULL THEN "all" ELSE b.targetAudience,
     status |-> "active",
     minPurchaseAmount |-> b.minPurchaseAmount,
     createdBy |-> actor]

\* userQuery of the fan-out; with no clause every account matches.
PromotionQuery(audience, u) ==
    CASE audience = "buyers" -> UserRole(u) = "individual"
      [] audience = "sellers" -> UserRole(u) = "seller"
      [] audience = "dealers" -> UserRole(u) = "dealer"
      [] OTHER -> TRUE

\* .limit(1000)
LookupLimit == 1000

\* User.find(userQuery).limit(1000)
TargetUsers(audience) ==
    Slice(UserFind({u \in Universe : PromotionQuery(audience, u)}),
          0, LookupLimit)

\* The result of one notificationPromises entry: the document, or the object
\* the catch block returns for a rejected write.
WriteResult(u, failing) == IF u \in failing THEN "caught" ELSE "document"

\* successfulNotifications.filter((n) => n !== null).length
FilteredCount(targets, failing) ==
    Cardinality({k \in 1..Len(targets) : WriteResult(targets[k], failing) # NULL})

\* Mutant: no account is skipped, an e-mail is attempted for every target.
EmailCandidates_NoSkip(targets) == Range(targets)

\* The accounts an e-mail is attempted for.
EmailCandidates(targets) ==
    {u \in Range(targets) : ~(UserEmail(u) = NULL \/ ~UserVerified(u))}

\* The result of one emailPromises entry: null for a skipped account, the
\* object the try block or its catch block returns otherwise.
EmailResult(u, sendFail) ==
    IF u \notin EmailCandidates(<<u>>) THEN NULL
    ELSE IF u \in sendFail THEN "failed" ELSE "sent"

\* Mutant: every attempted send is counted, failed ones included.
SuccessfulEmails_CountsFailures(targets, sendFail) ==
    Cardinality({k \in 1..Len(targets) :
                    EmailResult(targets[k], sendFail) # NULL})

\* emailResults.filter((r) => r && r.success).length
SuccessfulEmails(targets, sendFail) ==
    Cardinality({k \in 1..Len(targets) :
                    EmailResult(targets[k], sendFail) = "sent"})

\* The emission of the promotion fan-out.
PromotionEmitPlan(audience) ==
    CASE audience = "all" -> <<Channel("all", NULL)>>
      [] audience = "dealers" -> <<Channel("role", "dealer")>>
      [] audience = "buyers" -> <<Channel("role", "individual")>>
      [] audience = "sellers" -> <<Channel("role", "seller")>>
      [] OTHER -> <<>>

\* Mutant: no catch around the fan-out, a rejected lookup reaches the caller.
FanoutThrows_NoCatch(lookupFails) == lookupFails

\* Whether sendPromotionNotifications rejects: its body is one try block
\* whose catch logs the error, so a rejected audience lookup ends it normally.
FanoutThrows(lookupFails) == FALSE

\* sendPromotionNotifications(promotion, adminUser).
SendPromotionNotifications(r, promotion, actor) ==
    \E lookup \in Lookups :
      LET rl == [r EXCEPT !.fail.lookup = lookup]
          targets == TargetUsers(promotion.targetAudience)
      IN
      IF lookup
      THEN /\ req' = rl
           /\ UNCHANGED <<notifications, nextId>>
           /\ emits' = <<>> /\ mails' = {} /\ report' = NoReport
      ELSE IF Len(targets) = 0
      THEN \E failing \in FailSets({actor}, MaxFail) :
             LET list == Created(SelectSeq(<<actor>>, LAMBDA x : x \notin failing),
                                 NULL, "warning")
             IN /\ nextId + Len(list) - 1 <= MaxNotifs
                /\ notifications' = notifications \cup Range(list)
                /\ nextId' = nextId + Len(list)
                /\ req' = [rl EXCEPT !.fail.writes = failing]
                /\ emits' = <<>> /\ mails' = {} /\ report' = NoReport
      ELSE \E failing \in FailSets(Range(targets), MaxFail), enabled \in BOOLEAN,
              ioUp \in BOOLEAN :
           \E sendFail \in FailSets({u \in EmailCandidates(targets) : enabled},
                                    MaxFail - Cardinality(failing)) :
           \E e \in EmitFails(PromotionEmitPlan(promotion.targetAudience), ioUp,
                              MaxFail - Cardinality(failing) - Cardinality(sendFail)) :
             LET list == Created(SelectSeq(targets, LAMBDA u : u \notin failing),
                                 NULL, "promotion")
                 filtered == FilteredCount(targets, failing)
                 sent == IF enabled THEN EmailCandidates(targets) \ sendFail
                         ELSE {}
             IN /\ nextId + Len(targets) - 1 <= MaxNotifs
                /\ notifications' = notifications \cup Range(list)
                /\ nextId' = nextId + Len(list)
                /\ req' = [rl EXCEPT !.fail.writes = failing, !.mail = enabled,
                                     !.fail.sends = sendFail, !.io = ioUp,
                                     !.fail.emit = e]
                /\ mails' = sent
                /\ emits' = IF filtered > 0
                            THEN Emitted(PromotionEmitPlan(promotion.targetAudience),
                                         ioUp, e)
                            ELSE <<>>
                /\ report' = [totalUsers |-> Len(targets),
                              successfulNotifications |-> filtered,
                              successfulEmails |->
                                  IF enabled
                                  THEN SuccessfulEmails(targets, sendFail)
                                  ELSE 0]

CreatePromotion(actor, b) ==
    /\ Idle
    /\ UNCHANGED <<users, now>>
    /\ LET r == [Request("createPromotion", actor) EXCEPT
                   !.body = b, !.audience = b.targetAudience]
       IN
       IF UserRole(actor) # "admin"
       THEN Rejected(r, 403) /\ UNCHANGED promotions
       ELSE IF ValidatePromotion(b) # 0
       THEN Rejected(r, ValidatePromotion(b)) /\ UNCHANGED promotions
       ELSE \E createFails \in {FALSE} \cup {MaxFail > 0} :
              IF createFails
              THEN /\ Rejected([r EXCEPT !.fail.create = TRUE], 500)
                   /\ UNCHANGED promotions
              ELSE /\ creates < MaxCreates
                   /\ creates' = creates + 1
                   /\ promotions' = promotions \cup {NewPromotion(b, actor)}
                   /\ SendPromotionNotifications(r, NewPromotion(b, actor), actor)
                   /\ res' = Response(IF FanoutThrows(req'.fail.lookup)
                                       THEN 500 ELSE 201, 0)

\* The request bodies the model draws from.
Recipients == {NULL, UnknownEmail} \cup users \cup {UserEmail(u) : u \in users}

Audiences == {NULL, "all", "buyers", "sellers", "dealers", "admins", "everyone"}

\* A request the handler rejects before it reads the body is drawn with one
\* body only.
NotificationBodies(actor) ==
    IF UserRole(actor) # "admin"
    THEN {[title |-> TRUE, recipient |-> NULL, audience |-> "all"]}
    ELSE {[title |-> FALSE, recipient |-> NULL, audience |-> "all"]}
         \cup [title : {TRUE}, recipient : {NULL}, audience : Audiences]
         \cup [title : {TRUE}, recipient : Recipients \ {NULL}, audience : {NULL}]
         \cup [title : {TRUE}, recipient : {actor}, audience : {"all", "dealers"}]

\* A body that passes the validation (while its end date is not passed).
BaseBody == [title |-> TRUE, promoCode |-> "SUMMER20",
             discountType |-> "percentage", discountValue |-> 20,
             usageLimit |-> 2, startDate |-> 1, endDate |-> 2,
             targetAudience |-> "all", minPurchaseAmount |-> 0]

PromotionBodies(actor) ==
    IF UserRole(actor) # "admin" THEN {BaseBody}
    ELSE {[BaseBody EXCEPT !.targetAudience = a] :
             a \in {NULL, "all", "buyers", "sellers", "dealers"}}
         \cup {[BaseBody EXCEPT !.promoCode = " summer20 "],
               [BaseBody EXCEPT !.title = FALSE],
               [BaseBody EXCEPT !.startDate = 2],
               [BaseBody EXCEPT !.startDate = -1, !.endDate = 1],
               [BaseBody EXCEPT !.discountValue = 150],
               [BaseBody EXCEPT !.discountType = "fixed", !.discountValue = -5]}

\* The requests of the notification routes and the creation of promotions;
\* no public promo-code request is in flight.
Next ==
    \/ Tick /\ UNCHANGED calls
    \/ Finish /\ UNCHANGED calls
    \/ /\ \E u \in users, id \in 0..MaxNotifs : MarkAsRead(u, id)
       /\ UNCHANGED calls
    \/ /\ \E u \in users : MarkAllAsRead(u)
       /\ UNCHANGED calls
    \/ /\ \E u \in users :
            \E id \in IF UserRole(u) = "admin" THEN 0..MaxNotifs ELSE {0} :
              DeleteNotification(u, id)
       /\ UNCHANGED calls
    \/ /\ \E u \in users : \E b \in NotificationBodies(u) :
            CreateNotification(u, b.title, b.recipient, b.audience)
       /\ UNCHANGED calls
    \/ /\ \E u \in users : \E b \in PromotionBodies(u) : CreatePromotion(u, b)
       /\ UNCHANGED calls

Spec == Init /\ [][Next]_vars

\* The same requests for a dealer and an admin, with deleteNotification
\* reaching the handler for every caller and every identifier.
ReadInit == Init /\ users = {"d1", "a1"}

ReadNext ==
    \/ Tick /\ UNCHANGED calls
    \/ Finish /\ UNCHANGED calls
    \/ /\ \E u \in users, id \in 0..MaxNotifs : MarkAsRead(u, id)
       /\ UNCHANGED calls
    \/ /\ \E u \in users : MarkAllAsRead(u)
       /\ UNCHANGED calls
    \/ /\ \E u \in users, id \in 0..MaxNotifs : DeleteNotification(u, id)
       /\ UNCHANGED calls
    \/ /\ \E u \in users : \E b \in NotificationBodies(u) :
            CreateNotification(u, b.title, b.recipient, b.audience)
       /\ UNCHANGED calls
    \/ /\ \E u \in users : \E b \in PromotionBodies(u) : CreatePromotion(u, b)
       /\ UNCHANGED calls

ReadSpec == ReadInit /\ [][ReadNext]_vars

(***************************************************************************)
(* The promo-code endpoints: validatePromoCode, applyPromoCode, and the    *)
(* admin handlers updatePromotion and deletePromotion.                     *)
(***************************************************************************)
\* Promotion.findOne({promoCode: promoCode.toUpperCase().trim()})
FindOne(code) == {p \in promotions : p.promoCode = Normalize(code)}

\* promotion.canBeUsed(): a method of the Promotion model, which is not part
\* of the source at hand.  It is taken to accept what getActivePromotions
\* lists: an active promotion inside its dates with uses left.
CanBeUsed(p) ==
    /\ p.status = "active"
    /\ p.startDate <= now /\ now <= p.endDate
    /\ p.usedCount < p.usageLimit

\* Mutant: the eligibility of the promotion is not checked.
ApplyCheck_SkipsCanBeUsed(code, amount, found) ==
    IF code = NULL THEN 400
    ELSE IF amount <= 0 THEN 400
    ELSE IF found = {} THEN 404
    ELSE LET p == CHOOSE q \in found : TRUE
         IN IF p.minPurchaseAmount > 0 /\ amount < p.minPurchaseAmount
            THEN 400 ELSE 0

\* The checks of applyPromoCode before its write: the status it rejects the
\* request with, 0 when the request passes.  amount 0 stands for a missing
\* or zero amount.
ApplyCheck(code, amount, found) ==
    IF code = NULL THEN 400
    ELSE IF amount <= 0 THEN 400
    ELSE IF found = {} THEN 404
    ELSE LET p == CHOOSE q \in found : TRUE
         IN IF ~CanBeUsed(p) THEN 400
            ELSE IF p.minPurchaseAmount > 0 /\ amount < p.minPurchaseAmount
            THEN 400 ELSE 0

\* The checks of validatePromoCode; the amount is optional there.
ValidateCheck(code, amount, found) ==
    IF code = NULL THEN 400
    ELSE IF found = {} THEN 404
    ELSE LET p == CHOOSE q \in found : TRUE
         IN IF ~CanBeUsed(p) THEN 400
            ELSE IF amount # 0 /\ p.minPurchaseAmount > 0
                    /\ amount < p.minPurchaseAmount
            THEN 400 ELSE 200

\* Mutant: the new count is computed from the document the request read.
Incremented_ReadModifyWrite(stored, snapshot) ==
    [stored EXCEPT !.usedCount = snapshot.usedCount + 1]

\* {$inc: {usedCount: 1}}: the store adds one to the count it holds.
Incremented(stored, snapshot) ==
    [stored EXCEPT !.usedCount = stored.usedCount + 1]

\* Mutant: the update is applied only while uses are left.
FindByIdAndUpdate_Guarded(snapshot) ==
    {IF p.promoCode = snapshot.promoCode /\ p.usedCount < p.usageLimit
     THEN Incremented(p, snapshot) ELSE p : p \in promotions}

\* Promotion.findByIdAndUpdate(promotion._id, {$inc: {usedCount: 1}}): one
\* atomic update of the stored document; nothing when it is gone.  The promo
\* code stands for _id: no handler modelled here changes a code.
FindByIdAndUpdate(snapshot) ==
    {IF p.promoCode = snapshot.promoCode
     THEN Incremented(p, snapshot) ELSE p : p \in promotions}

NotPromoState == <<users, notifications, nextId, creates, now,
                   req, res, emits, mails, report>>

\* Mutant: validating a usable code counts as a use.
ValidatePromoCode_Counts(c, code, amount) ==
    /\ calls[c].pc = "idle"
    /\ LET found == FindOne(code)
       IN /\ calls' = [calls EXCEPT ![c] =
                [pc |-> "done", op |-> "validate", code |-> code,
                 amount |-> amount, snap |-> {},
                 status |-> ValidateCheck(code, amount, found)]]
          /\ promotions' = {IF p \in found THEN Incremented(p, p) ELSE p :
                              p \in promotions}
    /\ UNCHANGED NotPromoState

\* validatePromoCode: one read, then the answer.
ValidatePromoCode(c, code, amount) ==
    /\ calls[c].pc = "idle"
    /\ calls' = [calls EXCEPT ![c] =
          [pc |-> "done", op |-> "validate", code |-> code,
           amount |-> amount, snap |-> {},
           status |-> ValidateCheck(code, amount, FindOne(code))]]
    /\ UNCHANGED promotions
    /\ UNCHANGED NotPromoState

\* applyPromoCode up to its write: the body checks, the read of the
\* promotion, and the checks on the document read.  A request that is
\* rejected is answered here; one that passes goes on to the update with the
\* document it read.
ApplyFind(c, code, amount) ==
    /\ calls[c].pc = "idle"
    /\ LET found == FindOne(code)
           status == ApplyCheck(code, amount, found)
       IN calls' = [calls EXCEPT ![c] =
            IF status = 0
            THEN [pc |-> "inc", op |-> "apply", code |-> code,
                  amount |-> amount, snap |-> found, status |-> 0]
            ELSE [pc |-> "done", op |-> "apply", code |-> code,
                  amount |-> amount, snap |-> {}, status |-> status]]
    /\ UNCHANGED promotions
    /\ UNCHANGED NotPromoState

\* applyPromoCode from its write on: the update, whose result the handler
\* does not look at, and the answer 200.
ApplyIncrement(c) ==
    /\ calls[c].pc = "inc"
    /\ LET snapshot == CHOOSE q \in calls[c].snap : TRUE
       IN promotions' = FindByIdAndUpdate(snapshot)
    /\ calls' = [calls EXCEPT ![c].pc = "done", ![c].status = 200]
    /\ UNCHANGED NotPromoState

\* A body of updatePromotion that gives no field; 0 and NULL stand for a
\* field the body does not give.
NoUpdate == [usageLimit |-> 0, status |-> NULL, startDate |-> 0, endDate |-> 0]

\* The date check of updatePromotion: made only when the body gives both
\* dates.
UpdateDatesRejected(b) ==
    b.startDate # 0 /\ b.endDate # 0 /\ b.startDate >= b.endDate

\* The document updatePromotion saves: the fields the body gives are
\* assigned, then the status follows the end date.
Updated(p, b) ==
    LET assigned == [p EXCEPT
                       !.usageLimit = IF b.usageLimit # 0 THEN b.usageLimit ELSE @,
                       !.startDate = IF b.startDate # 0 THEN b.startDate ELSE @,
                       !.endDate = IF b.endDate # 0 THEN b.endDate ELSE @,
                       !.status = IF b.status # NULL THEN b.status ELSE @]
    IN IF assigned.endDate < now THEN [assigned EXCEPT !.status = "expired"]
       ELSE assigned

\* updatePromotion by `actor` of the promotion with the given code, with the
\* body b.  save() writes the fields the handler assigned.
UpdatePromotion(actor, code, b) ==
    /\ UNCHANGED <<users, notifications, nextId, creates, now, req, emits,
                   mails, report, calls>>
    /\ IF UserRole(actor) # "admin"
       THEN res' = Response(403, 0) /\ UNCHANGED promotions
       ELSE IF \A p \in promotions : p.promoCode # code
       THEN res' = Response(404, 0) /\ UNCHANGED promotions
       ELSE IF UpdateDatesRejected(b)
       THEN res' = Response(400, 0) /\ UNCHANGED promotions
       ELSE /\ res' = Response(200, 0)
            /\ promotions' =
                 {IF p.promoCode # code THEN p ELSE Updated(p, b) :
                  p \in promotions}

\* deletePromotion by `actor` of the promotion with the given code.
DeletePromotion(actor, code) ==
    /\ UNCHANGED <<users, notifications, nextId, creates, now, req, emits,
                   mails, report, calls>>
    /\ IF UserRole(actor) # "admin"
       THEN res' = Response(403, 0) /\ UNCHANGED promotions
       ELSE IF \A p \in promotions : p.promoCode # code
       THEN res' = Response(404, 0) /\ UNCHANGED promotions
       ELSE /\ res' = Response(200, 0)
            /\ promotions' = {p \in promotions : p.promoCode # code}

\* The bodies of the promotions the promo-code requests run against.
ApplyBodies ==
    {[BaseBody EXCEPT !.usageLimit = l, !.minPurchaseAmount = m,
                      !.startDate = d[1], !.endDate = d[2]] :
        l \in {1, 2}, m \in {0, 50}, d \in {<<1, 2>>, <<-1, 1>>}}

\* The request bodies of the public endpoints.
ApplyCodes == {NULL, " summer20 ", "NOPE"}

ApplyAmounts == {0, 40, 200}

\* The state after an admin has created one promotion, its fan-out having
\* found nobody to write to.
ApplyInit ==
    /\ users = {"a1"}
    /\ notifications = {}
    /\ nextId = 1
    /\ \E b \in ApplyBodies : promotions = {NewPromotion(b, "a1")}
    /\ creates = 1
    /\ now = 1
    /\ req = Request("none", NULL)
    /\ res = Response(0, 0)
    /\ emits = <<>>
    /\ mails = {}
    /\ report = NoReport
    /\ calls = NoCalls

\* The public requests, interleaved at their awaits, while time passes.
ApplyNext ==
    \/ Tick /\ UNCHANGED calls
    \/ \E c \in Callers, code \in ApplyCodes, amount \in ApplyAmounts :
         ValidatePromoCode(c, code, amount)
    \/ \E c \in Callers, code \in ApplyCodes, amount \in ApplyAmounts :
         ApplyFind(c, code, amount)
    \/ \E c \in Callers : ApplyIncrement(c)

ApplySpec == ApplyInit /\ [][ApplyNext]_vars

\* The callers whose applyPromoCode has passed its checks and not yet written.
InFlight == {c \in Callers : calls[c].pc = "inc"}

\* The same requests one after the other: a request is answered before the
\* next one is read.
SequentialNext == ApplyNext /\ Cardinality(InFlight') <= 1

SequentialSpec == ApplyInit /\ [][SequentialNext]_vars

\* The bodies updatePromotion is called with: a higher usage limit, or the
\* status "inactive".
UpdateBodies == {[NoUpdate EXCEPT !.usageLimit = 3],
                 [NoUpdate EXCEPT !.status = "inactive"]}

\* The public requests interleaved with the admin's updates and deletions.
PromoNext ==
    \/ ApplyNext
    \/ \E u \in {"a1", "i1"}, b \in UpdateBodies :
         UpdatePromotion(u, "SUMMER20", b)
    \/ \E u \in {"a1", "i1"} : DeletePromotion(u, "SUMMER20")

\* One promotion with a single use and a minimum purchase amount.
PromoInit ==
    /\ ApplyInit
    /\ \A p \in promotions :
         p.usageLimit = 1 /\ p.minPurchaseAmount = 50 /\ p.endDate = 2

PromoSpec == PromoInit /\ [][PromoNext]_vars

\* The bodies of updatePromotion that give dates: the start date alone, the
\* end date alone, both in order, both out of order.
DateBodies == {[NoUpdate EXCEPT !.startDate = 2],
               [NoUpdate EXCEPT !.endDate = 1],
               [NoUpdate EXCEPT !.startDate = 1, !.endDate = 2],
               [NoUpdate EXCEPT !.startDate = 2, !.endDate = 1]}

\* One admin and nothing stored.
DateInit == Init /\ users = {"a1"}

\* The admin creates promotions and changes their dates.
DateNext ==
    \/ Tick /\ UNCHANGED calls
    \/ Finish /\ UNCHANGED calls
    \/ /\ \E b \in PromotionBodies("a1") : CreatePromotion("a1", b)
       /\ UNCHANGED calls
    \/ \E b \in DateBodies : Idle /\ UpdatePromotion("a1", "SUMMER20", b)

DateSpec == DateInit /\ [][DateNext]_vars

(***************************************************************************)
(* createPromotion with its awaits: several requests in flight.            *)
(***************************************************************************)
\* The unique index on promoCode of the Promotion schema, which is not part
\* of the source at hand: an insert of a code that is stored is refused with
\* the duplicate-key error.
DuplicateKey(code) == \E p \in promotions : p.promoCode = code

\* Mutant: the duplicate-key error is answered like any other error.
CatchStatus_Always500(duplicate) == 500

\* The catch block of createPromotion: error.code 11000 is answered 409,
\* every other error 500.
CatchStatus(duplicate) == IF duplicate THEN 409 ELSE 500

\* createPromotion up to its insert: the admin check, the validation and the
\* pre-check of the code.  A request that passes goes on to the insert.
CreateCheck(c, actor, b) ==
    /\ calls[c].pc = "idle"
    /\ LET status == IF UserRole(actor) # "admin" THEN 403
                     ELSE ValidatePromotion(b)
       IN calls' = [calls EXCEPT ![c] =
            [pc |-> IF status = 0 THEN "insert" ELSE "done",
             op |-> "create", code |-> b.promoCode, amount |-> 0,
             snap |-> IF status = 0 THEN {[body |-> b, actor |-> actor]}
                      ELSE {},
             status |-> status]]
    /\ UNCHANGED <<users, notifications, nextId, promotions, creates, now,
                   req, res, emits, mails, report>>

\* createPromotion from its insert on: Promotion.create, then the fan-out
\* and the answer 201; an insert the index refuses throws to the catch block.
CreateInsert(c) ==
    /\ calls[c].pc = "insert"
    /\ UNCHANGED <<users, now>>
    /\ LET x == CHOOSE y \in calls[c].snap : TRUE
           p == NewPromotion(x.body, x.actor)
           r == [Request("createPromotion", x.actor) EXCEPT
                   !.body = x.body, !.audience = x.body.targetAudience]
       IN \E createFails \in {FALSE} \cup {MaxFail > 0} :
          IF DuplicateKey(p.promoCode) \/ createFails
          THEN /\ calls' = [calls EXCEPT
                   ![c].pc = "done",
                   ![c].status = CatchStatus(DuplicateKey(p.promoCode))]
               /\ UNCHANGED <<notifications, nextId, promotions, creates,
                              req, res, emits, mails, report>>
          ELSE /\ promotions' = promotions \cup {p}
               /\ creates' = creates + 1
               /\ SendPromotionNotifications(r, p, x.actor)
               /\ res' = Response(IF FanoutThrows(req'.fail.lookup)
                                   THEN 500 ELSE 201, 0)
               /\ calls' = [calls EXCEPT ![c].pc = "done",
                                         ![c].status = res'.status]

\* The bodies of the racing requests: one code in two spellings, and another.
RaceBodies == {BaseBody,
               [BaseBody EXCEPT !.promoCode = " summer20 ", !.discountValue = 10],
               [BaseBody EXCEPT !.promoCode = "WINTER10"]}

RaceInit == Init /\ users = {"a1"}

RaceNext ==
    \/ \E c \in Callers, actor \in {"a1", "i1"}, b \in RaceBodies :
         CreateCheck(c, actor, b)
    \/ \E c \in Callers : CreateInsert(c)

RaceSpec == RaceInit /\ [][RaceNext]_vars

(***************************************************************************)
(* The two fan-outs with their awaits: one request in flight, its writes   *)
(* and e-mail sends settling one by one.  calls[1] holds the position of   *)
(* the request: pc is the stage, amount the first identifier the request   *)
(* writes, snap the promises that have not settled.                        *)
(***************************************************************************)
Job(kind, u) == [kind |-> kind, user |-> u]

Pending(kind) == {j \in calls[1].snap : j.kind = kind}

\* Mutant: the handler goes on without awaiting the promises.
Settled_NotAwaited(jobs) == TRUE

\* await Promise.all(promises), no promise rejecting: every one has settled.
Settled(jobs) == jobs = {}

\* The accounts the request in flight writes for.
StageTargets ==
    IF req.op = "createPromotion" THEN TargetUsers(req.audience)
    ELSE IF req.audience = "all" THEN BroadcastTargets
    ELSE RoleAudience(TargetRole(req.audience, NULL))

\* The downstream calls of the request that have failed so far.
FailuresUsed ==
    Cardinality(req.fail.writes) + Cardinality(req.fail.sends)
      + (IF req.fail.lookup THEN 1 ELSE 0)

Jobs(kind, S) == {Job(kind, u) : u \in S}

SetStage(pc, jobs) == calls' = [calls EXCEPT ![1].pc = pc, ![1].snap = jobs]

\* The request is taken up: nothing of it has been written or emitted.
Taken(r, pc, jobs) ==
    /\ req' = r
    /\ res' = Response(0, 0)
    /\ emits' = <<>> /\ mails' = {} /\ report' = NoReport
    /\ calls' = [calls EXCEPT ![1] =
                   [pc |-> pc, op |-> r.op, code |-> NULL, amount |-> nextId,
                    snap |-> jobs, status |-> 0]]

\* The request is answered at once.
Refused(r, status) ==
    /\ Answer(r, status, 0)
    /\ calls' = [calls EXCEPT ![1].pc = "done", ![1].op = r.op]

\* createNotification for an audience, up to the first batch of writes.
BeginNotification(actor, audience) ==
    /\ Idle /\ calls[1].pc = "idle"
    /\ UNCHANGED <<users, notifications, nextId, promotions, creates, now>>
    /\ LET r == [Request("createNotification", actor) EXCEPT
                   !.audience = audience]
           role == TargetRole(audience, NULL)
       IN
       IF UserRole(actor) # "admin" THEN Refused(r, 403)
       ELSE IF audience = "all"
       THEN /\ nextId <= MaxNotifs
            /\ \E ioUp \in BOOLEAN :
                 Taken([r EXCEPT !.io = ioUp], "writing",
                       Jobs("write", Range(BroadcastTargets)))
       ELSE \E lookup \in Lookups :
              LET rl == [r EXCEPT !.fail.lookup = lookup] IN
              IF lookup THEN Refused(rl, 500)
              ELSE IF Len(RoleAudience(role)) = 0 THEN Refused(rl, 400)
              ELSE /\ nextId + Len(RoleAudience(role)) - 1 <= MaxNotifs
                   /\ \E ioUp \in BOOLEAN :
                        Taken([rl EXCEPT !.io = ioUp], "writing",
                              Jobs("write",
                                   Range(Slice(RoleAudience(role), 0, batchSize))))

\* createPromotion up to the writes of the fan-out.
BeginPromotion(actor, b) ==
    /\ Idle /\ calls[1].pc = "idle"
    /\ UNCHANGED <<users, notifications, nextId, now>>
    /\ LET r == [Request("createPromotion", actor) EXCEPT
                   !.body = b, !.audience = b.targetAudience]
           targets == TargetUsers(b.targetAudience)
       IN
       IF UserRole(actor) # "admin"
       THEN Refused(r, 403) /\ UNCHANGED <<promotions, creates>>
       ELSE IF ValidatePromotion(b) # 0
       THEN Refused(r, ValidatePromotion(b)) /\ UNCHANGED <<promotions, creates>>
       ELSE \E createFails \in {FALSE} \cup {MaxFail > 0} :
              IF createFails
              THEN /\ Refused([r EXCEPT !.fail.create = TRUE], 500)
                   /\ UNCHANGED <<promotions, creates>>
              ELSE /\ creates < MaxCreates
                   /\ creates' = creates + 1
                   /\ promotions' = promotions \cup {NewPromotion(b, actor)}
                   /\ \E lookup \in Lookups, enabled \in BOOLEAN, ioUp \in BOOLEAN :
                        LET rl == [r EXCEPT !.fail.lookup = lookup,
                                            !.mail = enabled, !.io = ioUp]
                        IN IF lookup THEN Taken(rl, "respond", {})
                           ELSE IF Len(targets) = 0
                           THEN /\ nextId <= MaxNotifs
                                /\ Taken(rl, "warning", Jobs("write", {actor}))
                           ELSE /\ nextId + Len(targets) - 1 <= MaxNotifs
                                /\ Taken(rl, "writing",
                                         Jobs("write", Range(targets)))

\* The document a write of the request in flight stores.
StageDocument(u) ==
    IF req.op = "createPromotion"
    THEN NewNotification(nextId, u, NULL,
                         IF calls[1].pc = "warning" THEN "warning"
                         ELSE "promotion")
    ELSE NewNotification(nextId, u, TargetRole(req.audience, NULL), "info")

\* One Notification.create settles.  In createNotification a rejection
\* rejects the Promise.all of the batch, and the catch block answers 500
\* while the other writes of the batch are still in flight; in the promotion
\* fan-out every write has its own catch.
SettleWrite(u, ok) ==
    /\ Job("write", u) \in calls[1].snap
    /\ ok \/ FailuresUsed < MaxFail
    /\ UNCHANGED <<users, promotions, creates, now, emits, mails, report>>
    /\ IF ok
       THEN /\ notifications' = notifications \cup {StageDocument(u)}
            /\ nextId' = nextId + 1
            /\ req' = req
       ELSE /\ UNCHANGED <<notifications, nextId>>
            /\ req' = [req EXCEPT !.fail.writes = @ \cup {u}]
    /\ IF ~ok /\ req.op = "createNotification" /\ calls[1].pc = "writing"
       THEN /\ res' = Response(500, 0)
            /\ SetStage("done", calls[1].snap \ {Job("write", u)})
       ELSE /\ res' = res
            /\ SetStage(calls[1].pc, calls[1].snap \ {Job("write", u)})

\* createNotification: a batch has been awaited; the next batch, or the
\* emission after the last one.
BatchSettled ==
    /\ req.op = "createNotification" /\ calls[1].pc = "writing"
    /\ Settled(Pending("write"))
    /\ LET written == nextId - calls[1].amount IN
       IF written < Len(StageTargets)
       THEN SetStage("writing",
                     calls[1].snap \cup
                       Jobs("write", Range(Slice(StageTargets, written,
                                                 written + batchSize))))
       ELSE SetStage("emitting", calls[1].snap)
    /\ UNCHANGED <<users, notifications, nextId, promotions, creates, now,
                   req, res, emits, mails, report>>

\* The promotion fan-out: the writes have been awaited; the e-mail sends
\* start if e-mail is enabled.  The fan-out for an empty audience returns
\* after its warning.
WritesSettled ==
    /\ req.op = "createPromotion" /\ calls[1].pc \in {"writing", "warning"}
    /\ Settled(Pending("write"))
    /\ IF calls[1].pc = "warning" THEN SetStage("respond", calls[1].snap)
       ELSE IF req.mail
       THEN SetStage("mailing",
                     calls[1].snap \cup Jobs("send", EmailCandidates(StageTargets)))
       ELSE SetStage("emitting", calls[1].snap)
    /\ UNCHANGED <<users, notifications, nextId, promotions, creates, now,
                   req, res, emits, mails, report>>

\* One sendEmail settles; its rejection is caught.
SettleSend(u, ok) ==
    /\ Job("send", u) \in calls[1].snap
    /\ ok \/ FailuresUsed < MaxFail
    /\ mails' = IF ok THEN mails \cup {u} ELSE mails
    /\ req' = IF ok THEN req ELSE [req EXCEPT !.fail.sends = @ \cup {u}]
    /\ SetStage(calls[1].pc, calls[1].snap \ {Job("send", u)})
    /\ UNCHANGED <<users, notifications, nextId, promotions, creates, now,
                   res, emits, report>>

\* The promotion fan-out: the sends have been awaited.
SendsSettled ==
    /\ req.op = "createPromotion" /\ calls[1].pc = "mailing"
    /\ Settled(Pending("send"))
    /\ SetStage("emitting", calls[1].snap)
    /\ UNCHANGED <<users, notifications, nextId, promotions, creates, now,
                   req, res, emits, mails, report>>

\* The notifications array of createNotification, in the order of the users.
StageList ==
    [k \in 1..Len(StageTargets) |->
       CHOOSE n \in notifications :
         n.id >= calls[1].amount /\ n.recipient = StageTargets[k]]

\* The try block of the emission, of either handler.
Emit ==
    /\ calls[1].pc = "emitting"
    /\ LET plan == IF req.op = "createPromotion"
                   THEN PromotionEmitPlan(req.audience)
                   ELSE EmitPlan(req.audience, StageList)
           filtered == FilteredCount(StageTargets, req.fail.writes)
       IN \E e \in EmitFails(plan, req.io, MaxFail - FailuresUsed) :
            /\ req' = [req EXCEPT !.fail.emit = e]
            /\ emits' = IF req.op = "createPromotion" /\ filtered = 0 THEN <<>>
                        ELSE Emitted(plan, req.io, e)
            /\ report' = IF req.op = "createPromotion"
                         THEN [totalUsers |-> Len(StageTargets),
                               successfulNotifications |-> filtered,
                               successfulEmails |->
                                  IF req.mail
                                  THEN SuccessfulEmails(StageTargets, req.fail.sends)
                                  ELSE 0]
                         ELSE report
    /\ SetStage("respond", calls[1].snap)
    /\ UNCHANGED <<users, notifications, nextId, promotions, creates, now,
                   res, mails>>

\* res.status(201).json(...)
Respond ==
    /\ calls[1].pc = "respond"
    /\ res' = Response(201, IF req.op = "createNotification"
                            THEN Len(StageTargets) ELSE 0)
    /\ SetStage("done", calls[1].snap)
    /\ UNCHANGED <<users, notifications, nextId, promotions, creates, now,
                   req, emits, mails, report>>

\* The request is over and nothing it started is in flight.
StageFinish ==
    /\ calls[1].pc = "done" /\ calls[1].snap = {}
    /\ Finish
    /\ calls' = NoCalls

StageAudiences == {"all", "buyers", "sellers", "dealers"}

StageNext ==
    \/ \E actor \in users, a \in StageAudiences : BeginNotification(actor, a)
    \/ \E actor \in users, a \in StageAudiences :
         BeginPromotion(actor, [BaseBody EXCEPT !.targetAudience = a])
    \/ \E u \in users \cup {NULL}, ok \in BOOLEAN : SettleWrite(u, ok)
    \/ BatchSettled
    \/ WritesSettled
    \/ \E u \in users, ok \in BOOLEAN : SettleSend(u, ok)
    \/ SendsSettled
    \/ Emit
    \/ Respond
    \/ StageFinish

StageSpec == Init /\ [][StageNext]_vars

(***************************************************************************)
(* The two fan-outs by their numbers, for audiences of any size: `found`   *)
(* accounts match the query of the lookup.  The documents are not built;   *)
(* nextId advances by the number of documents the request creates.         *)
(***************************************************************************)
\* The sizes of the matching audience the model draws from.
AudienceSizes == (0..40) \cup ((LookupLimit - 20)..(LookupLimit + 20))

\* .limit(n) on a query that matches `found` documents.
Limit(found, n) == IF found < n THEN found ELSE n

\* The length of users in createNotification: User.find without a limit.
NotificationLookup(found) == found

\* The length of targetUsers in the promotion fan-out.
PromotionLookup(found) == Limit(found, LookupLimit)

\* createNotification by an admin with a title, for the audience "all" or a
\* role audience that `found` active verified accounts match, no call failing.
CountNotification(audience, found) ==
    /\ Idle /\ nextId = 1
    /\ LET r == [Request("createNotification", "a1") EXCEPT
                   !.audience = audience]
           written == IF audience = "all" THEN Len(BroadcastTargets)
                      ELSE NotificationLookup(found)
       IN IF written = 0
          THEN Answer(r, 400, 0) /\ nextId' = nextId
          ELSE /\ Answer(r, 201, written)
               /\ nextId' = nextId + written
    /\ UNCHANGED <<users, notifications, promotions, creates, now, calls>>

\* The fan-out of a promotion an admin created, for an audience that `found`
\* accounts match, no call failing: one document for each account of the
\* lookup, or the warning to the admin when the lookup is empty.
CountPromotion(audience, found) ==
    /\ Idle /\ nextId = 1
    /\ LET r == [Request("createPromotion", "a1") EXCEPT
                   !.body = [BaseBody EXCEPT !.targetAudience = audience],
                   !.audience = audience]
           targets == PromotionLookup(found)
       IN /\ req' = r
          /\ res' = Response(201, 0)
          /\ emits' = <<>> /\ mails' = {}
          /\ report' = IF targets = 0 THEN NoReport
                       ELSE [totalUsers |-> targets,
                             successfulNotifications |-> targets,
                             successfulEmails |-> 0]
          /\ nextId' = nextId + (IF targets = 0 THEN 1 ELSE targets)
    /\ UNCHANGED <<users, notifications, promotions, creates, now, calls>>

CountFinish == Finish /\ UNCHANGED calls

CountNext ==
    \/ \E a \in {"all", "buyers", "dealers"}, n \in AudienceSizes :
         CountNotification(a, n)
    \/ \E a \in {"all", "buyers", "dealers"}, n \in AudienceSizes :
         CountPromotion(a, n)
    \/ CountFinish

CountInit == Init /\ users = Universe

CountSpec == CountInit /\ [][CountNext]_vars

(***************************************************************************)
(* The notification bell of one user and the server behind it.  calls[1]   *)
(* is the query hook (pc: its request; snap and amount: the answer on its  *)
(* way), calls[2] what the component holds (snap: the notifications of     *)
(* notificationsData, amount: totalUnread, status: the state unreadCount), *)
(* calls[3] the markAsRead mutation (code: the identifier clicked).        *)
(* emits are the events of the last response that have not been received.  *)
(***************************************************************************)
BellUser == "d1"

\* useGetUserNotificationsQuery({page: 1, limit: 10})
BellLimit == 10

\* The rooms of the socket of the bell's user; the socket server that joins
\* them is not part of the source at hand.
Addressed(e) ==
    \/ e.room = "all"
    \/ e.room = "user" /\ e.key = BellUser
    \/ e.room = "role" /\ e.key = UserRole(BellUser)

\* What the query hook hands to the component for a response body: the API
\* slice, which is not part of the source at hand, is taken to unwrap `data`,
\* as the component reads notificationsData.unreadCount.
NotificationsData(body) == body.data

\* refetch(): a request of the hook, unless one is in flight.
StartFetch(h) ==
    IF h.pc = "idle" THEN [h EXCEPT !.pc = "requested", !.op = "fetch"] ELSE h

ServerState ==
    <<users, notifications, nextId, promotions, creates, now, req, res,
      emits, mails, report>>

\* pollingInterval: 30000
Poll ==
    /\ calls[1].pc = "idle"
    /\ calls' = [calls EXCEPT ![1] = StartFetch(@)]
    /\ UNCHANGED ServerState

\* The server answers GET /me.
ServeFetch ==
    /\ calls[1].pc = "requested"
    /\ LET body == [success |-> TRUE,
                    data |-> getUserNotifications(BellUser, "none", 1, BellLimit)]
           data == NotificationsData(body)
       IN calls' = [calls EXCEPT ![1].pc = "answered",
                                 ![1].snap = Range(data.notifications),
                                 ![1].amount = data.unreadCount]
    /\ UNCHANGED ServerState

\* The answer arrives: notificationsData, and totalUnread from it.
DeliverFetch ==
    /\ calls[1].pc = "answered"
    /\ calls' = [calls EXCEPT ![1] = [NoCall EXCEPT !.op = "fetch"],
                              ![2].snap = calls[1].snap,
                              ![2].amount = calls[1].amount]
    /\ UNCHANGED ServerState

\* useEffect(() => setUnreadCount(totalUnread), [totalUnread])
SyncEffect ==
    /\ calls[2].status # calls[2].amount
    /\ calls' = [calls EXCEPT ![2].status = calls[2].amount]
    /\ UNCHANGED ServerState

\* handleNewNotification: an event of the last response reaches the socket.
Receive(k) ==
    /\ k \in 1..Len(emits)
    /\ Addressed(emits[k])
    /\ emits' = SubSeq(emits, 1, k - 1) \o SubSeq(emits, k + 1, Len(emits))
    /\ calls' = [calls EXCEPT ![1] = StartFetch(@)]
    /\ UNCHANGED <<users, notifications, nextId, promotions, creates, now,
                   req, res, mails, report>>

\* Mutant: every click issues markAsRead.
ClickIssuesMarkAsRead_Always(n) == TRUE

\* if (!notification.isRead)
ClickIssuesMarkAsRead(n) == ~n.isRead

\* handleNotificationClick up to the await of markAsRead.
Click(n) ==
    /\ n \in calls[2].snap
    /\ calls[3].pc = "idle"
    /\ calls' = [calls EXCEPT ![3] =
                   [NoCall EXCEPT !.pc = IF ClickIssuesMarkAsRead(n)
                                         THEN "requested" ELSE "idle",
                                  !.op = "click", !.code = n.id]]
    /\ UNCHANGED ServerState

\* The server answers PUT /:notificationId/read, or the request fails.
ServeMarkAsRead(ok) ==
    /\ calls[3].pc = "requested"
    /\ UNCHANGED <<users, nextId, promotions, creates, now, req, res, emits,
                   mails, report>>
    /\ LET id == calls[3].code
           found == FindById(id)
           status == IF ~ok THEN 500
                     ELSE IF ~IsValidId(id) THEN 400
                     ELSE IF found = {} THEN 404
                     ELSE IF \E n \in found : ~HasAccess(n, BellUser) THEN 403
                     ELSE 200
       IN /\ notifications' =
               IF status = 200
               THEN (notifications \ found) \cup {MarkRead(n) : n \in found}
               ELSE notifications
          /\ calls' = [calls EXCEPT ![3].pc = "answered", ![3].status = status]

\* handleNotificationClick after the await: refetch, or the catch block.
MutationDone ==
    /\ calls[3].pc = "answered"
    /\ calls' = [calls EXCEPT
                   ![3].pc = "idle",
                   ![1] = IF calls[3].status = 200 THEN StartFetch(@) ELSE @]
    /\ UNCHANGED ServerState

\* An admin issues a notification to the user or to everyone.
BellCreate(recipient) ==
    /\ CreateNotification("a1", TRUE, recipient,
                          IF recipient = NULL THEN "all" ELSE NULL)
    /\ UNCHANGED calls

BellInit == Init /\ users = {"d1", "a1"}

BellNext ==
    \/ \E recipient \in {NULL, BellUser} : BellCreate(recipient)
    \/ Finish /\ UNCHANGED calls
    \/ Poll
    \/ ServeFetch
    \/ DeliverFetch
    \/ SyncEffect
    \/ \E k \in 1..MaxNotifs : Receive(k)
    \/ \E n \in calls[2].snap : Click(n)
    \/ \E ok \in BOOLEAN : ServeMarkAsRead(ok)
    \/ MutationDone

BellSpec == BellInit /\ [][BellNext]_vars

\* The poll timer fires again and again, a request of the hook is answered
\* and its answer delivered, and the effect runs after the render.
BellFairness ==
    /\ WF_vars(Poll)
    /\ WF_vars(ServeFetch)
    /\ WF_vars(DeliverFetch)
    /\ WF_vars(SyncEffect)

BellFairSpec == BellSpec /\ BellFairness

(***************************************************************************)
(* Properties of the read-state tracker.                                   *)
(***************************************************************************)
\* The record n after it has been marked read at the current time.
ReadNow(n) == [n EXCEPT !.isRead = TRUE, !.readAt = now]

PersonalUnread(u) == {n \in notifications : n.recipient = u /\ ~n.isRead}

BroadcastUnread == {n \in notifications : n.recipient = NULL /\ ~n.isRead}

IsReadFilters == {"none", "true", "false"}

\* C1: markAsRead on a notification addressed to another user is answered 403
\* and changes nothing; on a notification addressed to the acting user or to
\* nobody (broadcast) it is answered 200, sets isRead and stamps readAt.
C1_MarkAsReadAccess ==
    [][req'.op = "markAsRead" =>
         \A n \in notifications : n.id = req'.id =>
            IF n.recipient # NULL /\ n.recipient # req'.actor
            THEN /\ res'.status = 403
                 /\ notifications' = notifications
            ELSE /\ res'.status = 200
                 /\ notifications' = (notifications \ {n}) \cup {ReadNow(n)}]_vars

\* A user was refused on an unread notification of somebody else.
C1_Witness ==
    /\ req.op = "markAsRead"
    /\ res.status = 403
    /\ \E n \in notifications :
         n.id = req.id /\ n.recipient \notin {NULL, req.actor} /\ ~n.isRead

\* C2: in every reachable state the unreadCount getUserNotifications returns
\* for a user is the number of stored unread notifications addressed to the
\* user plus the number of stored unread broadcast notifications, whatever
\* the isRead filter and the page asked for.
C2_UnreadCountDerived ==
    \A u \in users : \A f \in IsReadFilters : \A page \in 1..2 :
      \A limit \in {1, DefaultLimit} :
        getUserNotifications(u, f, page, limit).unreadCount =
            Cardinality(PersonalUnread(u)) + Cardinality(BroadcastUnread)

\* A personal notification was deleted next to an unread broadcast: the
\* counts are those of the records left, one for every user of five.
C2_Witness ==
    /\ req.op = "deleteNotification" /\ res.status = 200
    /\ nextId = 3
    /\ Cardinality(users) = 5
    /\ Cardinality(BroadcastUnread) = 1
    /\ \A u \in users : PersonalUnread(u) = {} /\ UnreadCount(u) = 1

\* C3: markAllAsRead sets isRead on every unread notification addressed to
\* the acting user or to nobody, so that the user's unreadCount is 0, and
\* leaves every other record (already read, or of another user) as it was.
C3_MarkAllAsReadFrame ==
    [][req'.op = "markAllAsRead" =>
         /\ \A n \in notifications :
              IF (n.recipient = req'.actor \/ n.recipient = NULL) /\ ~n.isRead
              THEN \E m \in notifications' :
                     m.isRead /\ m = [n EXCEPT !.isRead = TRUE, !.readAt = m.readAt]
              ELSE n \in notifications'
         /\ Cardinality(notifications') = Cardinality(notifications)
         /\ \A u \in users : \A f \in IsReadFilters :
              u = req'.actor =>
                getUserNotifications(u, f, 1, DefaultLimit)'.unreadCount = 0]_vars

\* markAllAsRead flipped a record just now while the store holds a record
\* read earlier and an unread record of another user.
C3_Witness ==
    /\ req.op = "markAllAsRead"
    /\ \E n \in notifications : n.isRead /\ n.readAt = now
    /\ \E n \in notifications : n.isRead /\ n.readAt < now
    /\ \E n \in notifications : ~n.isRead /\ n.recipient \notin {NULL, req.actor}

\* C4: createNotification by an admin with targetAudience "all" and no
\* recipient, its write succeeding, stores exactly one new record, with
\* recipient null and targetRole null, and answers 201 with count 1, however
\* many users exist.
C4_BroadcastSingleRecord ==
    [][(/\ req'.op = "createNotification"
        /\ UserRole(req'.actor) = "admin"
        /\ req'.title
        /\ req'.recipient = NULL
        /\ req'.audience = "all"
        /\ req'.fail.writes = {}) =>
         /\ res' = Response(201, 1)
         /\ \E n \in notifications' :
              /\ n \notin notifications
              /\ notifications' = notifications \cup {n}
              /\ n.recipient = NULL
              /\ n.targetRole = NULL]_vars

\* The broadcast was created while five accounts exist.
C4_Witness ==
    /\ req.op = "createNotification" /\ req.audience = "all"
    /\ req.recipient = NULL
    /\ res = Response(201, 1)
    /\ Cardinality(users) = 5
    /\ \E n \in notifications : n.recipient = NULL

\* Number of times the notification with identifier id occurs in a listing.
Occurrences(listing, id) ==
    Cardinality({k \in 1..Len(listing) : listing[k].id = id})

\* C5: an unread broadcast notification occurs exactly once in every user's
\* unread listing (on exactly one page of it) and in the unfiltered listing,
\* and adds exactly one to every user's unreadCount, however many users exist.
C5_BroadcastListedOnce ==
    \A n \in BroadcastUnread : \A u \in users :
      /\ Occurrences(FindForUser(u, "false"), n.id) = 1
      /\ Occurrences(FindForUser(u, "none"), n.id) = 1
      /\ Occurrences(FindForUser(u, "true"), n.id) = 0
      /\ \A limit \in 1..MaxNotifs :
           Cardinality({page \in 1..MaxNotifs :
              Occurrences(getUserNotifications(u, "false", page, limit).notifications,
                          n.id) = 1}) = 1
      /\ getUserNotifications(u, "false", 1, DefaultLimit).unreadCount =
            1 + Cardinality({m \in notifications \ {n} :
                               (m.recipient = u \/ m.recipient = NULL) /\ ~m.isRead})

\* An unread broadcast is stored next to an unread personal notification
\* while five accounts exist.
C5_Witness ==
    /\ BroadcastUnread # {}
    /\ Cardinality(users) = 5
    /\ \E u \in users : PersonalUnread(u) # {}

\* C6: once a user has marked a broadcast notification read, by markAsRead
\* or by markAllAsRead, the record is read for every user: it is in nobody's
\* unreadCount.
C6_BroadcastReadIsShared ==
    [][(req'.op = "markAllAsRead" \/ (req'.op = "markAsRead" /\ res'.status = 200)) =>
         \A n \in notifications :
           (n.recipient = NULL /\ (req'.op = "markAllAsRead" \/ n.id = req'.id)) =>
              /\ \E m \in notifications' : m.id = n.id /\ m.isRead
              /\ \A v \in users :
                   UnreadCount(v)' =
                     Cardinality({m \in notifications' :
                        m.id # n.id /\ ~m.isRead /\ (m.recipient = v \/ m.recipient = NULL)})]_vars

\* One of several users marked a broadcast read, and it is read for all.
C6_Witness ==
    /\ req.op = "markAsRead" /\ res.status = 200
    /\ Cardinality(users) >= 2
    /\ \E n \in notifications : n.id = req.id /\ n.recipient = NULL /\ n.isRead
    /\ \A v \in users : UnreadCount(v) = Cardinality(PersonalUnread(v))

(***************************************************************************)
(* Properties of the fan-out.                                              *)
(***************************************************************************)
\* The documents a step adds to the Notification collection.
NewNotifications == notifications' \ notifications

RoleAudiences == {"buyers", "sellers", "dealers", "admins"}

\* The accounts a role audience of createNotification stands for.
NotificationMembers(audience) ==
    {u \in users :
       /\ UserStatus(u) = "active" /\ UserVerified(u)
       /\ \/ (audience \in {"buyers", "sellers"} /\ UserRole(u) = "individual")
          \/ (audience = "dealers" /\ UserRole(u) = "dealer")
          \/ (audience = "admins" /\ UserRole(u) = "admin")}

\* The accounts a role audience of a promotion stands for.
PromotionMembers(audience) ==
    {u \in users :
       \/ (audience = "buyers" /\ UserRole(u) = "individual")
       \/ (audience = "sellers" /\ UserRole(u) = "seller")
       \/ (audience = "dealers" /\ UserRole(u) = "dealer")}

\* A createNotification step for a role audience whose lookup succeeds.
RoleFanoutStep ==
    /\ req'.op = "createNotification"
    /\ UserRole(req'.actor) = "admin"
    /\ req'.title
    /\ req'.recipient = NULL
    /\ req'.audience \in RoleAudiences
    /\ ~req'.fail.lookup

\* A createPromotion step that stored the promotion and ran the fan-out for a
\* role audience whose lookup succeeds.
PromotionFanoutStep ==
    /\ req'.op = "createPromotion"
    /\ res'.status = 201
    /\ req'.body.targetAudience \in {"buyers", "sellers", "dealers"}
    /\ ~req'.fail.lookup

\* Exactly one new notification per member, none else, and no more e-mails
\* than members.
OnePerMember(members) ==
    /\ Cardinality(NewNotifications) = Cardinality(members)
    /\ \A u \in members :
         Cardinality({n \in NewNotifications : n.recipient = u}) = 1
    /\ Cardinality(mails') <= Cardinality(members)

C8_PromotionCountsSuccesses ==
    [][(/\ req'.op = "createPromotion"
        /\ res'.status = 201
        /\ report' # NoReport) =>
         /\ \A u \in Range(TargetUsers(req'.audience)) \ req'.fail.writes :
              \E n \in NewNotifications : n.recipient = u
         /\ report'.successfulNotifications = Cardinality(NewNotifications)]_vars

\* C9: in the role fan-out of createNotification a rejected write in a batch
\* that is not the last leaves the later batches running and the request
\* succeeding, with count the number of records created.
C9_BatchFailureIsolated ==
    [][(/\ RoleFanoutStep
        /\ Cardinality(NotificationMembers(req'.audience)) > batchSize
        /\ req'.fail.writes # {}
        /\ req'.fail.writes \subseteq
             Range(Slice(RoleAudience(RoleMap(req'.audience)), 0, batchSize))) =>
         /\ res'.status = 201
         /\ res'.count = Cardinality(NewNotifications)
         /\ \A u \in NotificationMembers(req'.audience) \ req'.fail.writes :
              \E n \in NewNotifications : n.recipient = u]_vars

\* C10: a createPromotion request of an admin that passes the validation and
\* whose Promotion.create succeeds is answered 201 with the promotion stored,
\* whatever fails in the fan-out.
C10_PromotionSurvivesFanout ==
    [][(/\ req'.op = "createPromotion"
        /\ UserRole(req'.actor) = "admin"
        /\ ValidatePromotion(req'.body) = 0
        /\ ~req'.fail.create) =>
         /\ res'.status = 201
         /\ \E p \in promotions' :
              /\ p \notin promotions
              /\ p.promoCode = Normalize(req'.body.promoCode)
              /\ promotions' = promotions \cup {p}]_vars

\* The audience lookup of the fan-out was rejected: the promotion is stored
\* and answered 201 although nobody was notified.
C10_Witness ==
    /\ req.op = "createPromotion" /\ res.status = 201
    /\ req.fail.lookup
    /\ \E p \in promotions : p.promoCode = Normalize(req.body.promoCode)
    /\ notifications = {}

(***************************************************************************)
(* Properties of the real-time emission.                                   *)
(***************************************************************************)
\* A request that got as far as its emission stage without an io handle, or
\* with an emission that throws.
EmissionImpaired(r) ==
    /\ r.op \in {"createNotification", "createPromotion"}
    /\ (~r.io \/ r.fail.emit >= 0)

\* C11 as stated (counterexample): without an io handle or with a throwing
\* emission the request succeeds, what was stored stays stored, and no event
\* at all is emitted.
C11_Original ==
    [][EmissionImpaired(req') =>
         /\ res'.status = 201
         /\ notifications \subseteq notifications'
         /\ emits' = <<>>]_vars

\* C11 (amended): without an io handle or with a throwing emission,
\* createNotification and the promotion fan-out still answer 201 and what
\* was stored stays stored; without an io handle no event is emitted, and
\* with a throwing emission exactly the emissions made before the throw have
\* gone out and none after it.
C11_EmissionBestEffort ==
    [][EmissionImpaired(req') =>
         /\ res'.status = 201
         /\ notifications \subseteq notifications'
         /\ (~req'.io => emits' = <<>>)
         /\ (req'.fail.emit >= 0 => Len(emits') = req'.fail.emit)]_vars

C11_Witness ==
    /\ req.op = "createNotification" /\ res.status = 201
    /\ req.io /\ req.fail.emit = 1
    /\ Len(emits) = 1 /\ emits[1].room = "user"
    /\ \E n \in notifications : n.recipient = emits[1].key

\* A request whose emission stage ran undisturbed after it stored something.
EmissionRan(r) ==
    /\ r.op \in {"createNotification", "createPromotion"}
    /\ res'.status = 201
    /\ r.io /\ r.fail.emit = -1
    /\ NewNotifications # {}
    /\ (r.op = "createPromotion" => report'.totalUsers > 0)

\* The events of the response that went to the audience (not to admin:room).
AudienceEvents(events) == SelectSeq(events, LAMBDA c : c.room # "admin")

\* C12 (counterexample): in createNotification and in the promotion fan-out
\* the new-notification event goes to every connected client for the
\* audience "all", to the one channel role:<role> for a role audience, and to
\* user:<id> for an explicit recipient.
C12_ChannelFollowsAudience ==
    [][EmissionRan(req') =>
         LET ev == AudienceEvents(emits') IN
         CASE req'.recipient # NULL ->
                ev = <<Channel("user", req'.recipient)>>
           [] req'.recipient = NULL /\ req'.audience = "all" ->
                ev = <<Channel("all", NULL)>>
           [] req'.recipient = NULL /\ req'.audience \in RoleAudiences ->
                Len(ev) = 1 /\ ev[1].room = "role"
           [] OTHER -> TRUE]_vars

\* The events of the response that went to the admin tracking channel.
AdminEvents(events) == SelectSeq(events, LAMBDA c : c.room = "admin")

\* C13 (counterexample): every fan-out, of createNotification or of a
\* promotion, that stores at least one notification while io is available and
\* no emission throws emits exactly one event to admin:room.
C13_AdminChannelTracksFanout ==
    [][(/\ req'.op \in {"createNotification", "createPromotion"}
        /\ res'.status = 201
        /\ req'.io /\ req'.fail.emit = -1
        /\ NewNotifications # {}) =>
         AdminEvents(emits') = <<Channel("admin", "room")>>]_vars

\* What does hold: createNotification emits to admin:room whenever it stored
\* a record and its emissions ran; the promotion fan-out never does.
C13_OnlyCreateNotificationTracks ==
    [][/\ (/\ req'.op = "createNotification" /\ res'.status = 201
           /\ req'.io /\ req'.fail.emit = -1) =>
             AdminEvents(emits') = <<Channel("admin", "room")>>
       /\ req'.op = "createPromotion" => AdminEvents(emits') = <<>>]_vars

(***************************************************************************)
(* Properties of the promotion e-mails.                                    *)
(***************************************************************************)
\* The accounts the e-mail dispatch skips.
Skipped == {u \in users : UserEmail(u) = NULL \/ ~UserVerified(u)}

\* C14: the promotion fan-out sends no e-mail while the e-mail toggle is
\* off; with the toggle on it sends none to an account without an address or
\* with verified = false, and such an account is neither among the failed
\* sends nor in the count of successful e-mails.
C14_EmailToggleAndSkips ==
    [][req'.op = "createPromotion" =>
         /\ (~req'.mail => mails' = {} /\ report'.successfulEmails <= 0)
         /\ Skipped \cap (mails' \cup req'.fail.sends) = {}
         /\ (report'.totalUsers > 0 =>
               report'.successfulEmails = Cardinality(mails' \ Skipped))]_vars

C14_Witness ==
    /\ req.op = "createPromotion" /\ res.status = 201
    /\ req.mail /\ req.audience = "all"
    /\ users = {"d1", "a1"}
    /\ report.totalUsers = 2
    /\ mails = {"a1"} /\ report.successfulEmails = 1
    /\ req.fail.sends = {}

\* C15: with the e-mail toggle on, a failed send stops no other send: every
\* target with an address and a verified account whose send did not fail
\* gets its e-mail, and the number of successful e-mails the fan-out reports
\* is the number of sends that completed (failed and skipped ones excluded).
C15_SendFailureIsolated ==
    [][(/\ req'.op = "createPromotion" /\ req'.mail
        /\ report'.totalUsers > 0) =>
         LET audience == IF req'.audience \in {"buyers", "sellers", "dealers"}
                         THEN PromotionMembers(req'.audience) ELSE users
             eligible == audience \ Skipped
         IN /\ mails' = eligible \ req'.fail.sends
            /\ report'.successfulEmails =
                 Cardinality(eligible) - Cardinality(req'.fail.sends)]_vars

C15_Witness ==
    /\ req.op = "createPromotion" /\ res.status = 201
    /\ req.mail /\ req.audience = "buyers"
    /\ req.fail.sends = {"i1"}
    /\ report.totalUsers = 3
    /\ mails = {"i2"} /\ report.successfulEmails = 1

(***************************************************************************)
(* Properties of the explicit recipient.                                   *)
(***************************************************************************)
\* C16 (counterexample): createNotification by an admin whose recipient is
\* the e-mail address of an existing account, the lookup succeeding, stores
\* exactly one notification, addressed to that account, and answers 201 with
\* count 1.
C16_EmailRecipientResolved ==
    [][(/\ req'.op = "createNotification"
        /\ UserRole(req'.actor) = "admin" /\ req'.title
        /\ IsEmailString(req'.recipient)
        /\ \E u \in users : UserEmail(u) = req'.recipient
        /\ ~req'.fail.lookup /\ req'.fail.writes = {}) =>
         /\ res' = Response(201, 1)
         /\ \E n \in NewNotifications :
              /\ NewNotifications = {n}
              /\ UserEmail(n.recipient) = req'.recipient]_vars

\* What the handler does with such a request: it answers 500 and stores
\* nothing.
C16_EmailRecipientFails ==
    [][(/\ req'.op = "createNotification"
        /\ UserRole(req'.actor) = "admin" /\ req'.title
        /\ IsEmailString(req'.recipient)
        /\ \E u \in users : UserEmail(u) = req'.recipient) =>
         /\ res'.status = 500
         /\ notifications' = notifications]_vars

(***************************************************************************)
(* Properties of the promo-code endpoints.                                 *)
(***************************************************************************)
\* Caller c's applyPromoCode is answered by the step.
ApplyAnswered(c) ==
    calls[c].pc # "done" /\ calls'[c].pc = "done" /\ calls'[c].op = "apply"

\* Caller c's applyPromoCode reads the promotion in the step.
ApplyReads(c) == calls[c].pc = "idle" /\ calls'[c].op = "apply"

\* C17: with the applyPromoCode requests handled one after the other and
\* the usage limit left alone, usedCount never exceeds usageLimit: a request
\* succeeds only while usedCount < usageLimit and adds one use, and a request
\* that finds usedCount = usageLimit is rejected.
C17_SequentialWithinLimit ==
    /\ [](\A p \in promotions : p.usedCount <= p.usageLimit)
    /\ [][\A c \in Callers :
            /\ (ApplyAnswered(c) /\ calls'[c].status = 200) =>
                 \A p \in calls[c].snap :
                   \E q \in promotions : \E r \in promotions' :
                     /\ q.promoCode = p.promoCode /\ r.promoCode = p.promoCode
                     /\ q.usedCount < q.usageLimit
                     /\ r.usedCount = q.usedCount + 1
            /\ ApplyReads(c) =>
                 \A p \in FindOne(calls'[c].code) :
                   p.usedCount = p.usageLimit =>
                     calls'[c].pc = "done" /\ calls'[c].status = 400]_vars

C17_Witness ==
    /\ \E p \in promotions :
         /\ p.usageLimit = 2 /\ p.usedCount = 2
         /\ p.status = "active" /\ now <= p.endDate
    /\ calls[1].op = "apply" /\ calls[1].status = 200 /\ calls[1].pc = "done"
    /\ calls[2].op = "apply" /\ calls[2].status = 200 /\ calls[2].pc = "done"
    /\ calls[3].op = "apply" /\ calls[3].status = 400 /\ calls[3].pc = "done"
    /\ calls[3].code = " summer20 " /\ calls[3].amount = 200

\* The callers whose applyPromoCode has been answered 200.
Succeeded ==
    {c \in Callers : calls[c].op = "apply" /\ calls[c].pc = "done"
                     /\ calls[c].status = 200}

\* C18: with the applyPromoCode requests interleaved, the check is made on
\* the document the request read and the increment on the stored one: a
\* request that passed the check adds its use whatever the stored count has
\* become, so that usedCount can pass usageLimit (the witness).
C18_CheckThenIncrement ==
    [][\A c \in Callers :
         (ApplyAnswered(c) /\ calls'[c].status = 200) =>
            \A p \in calls[c].snap :
              /\ p.usedCount < p.usageLimit
              /\ \A q \in promotions : q.promoCode = p.promoCode =>
                   \E r \in promotions' :
                     /\ r.promoCode = q.promoCode
                     /\ r.usedCount = q.usedCount + 1]_vars

\* Two requests read usedCount = usageLimit - 1, both were answered 200, and
\* the stored count is above the limit.
C18_Witness ==
    /\ \E p \in promotions : p.usedCount > p.usageLimit
    /\ \E c, d \in Succeeded :
         /\ c # d
         /\ \A p \in calls[c].snap \cup calls[d].snap :
              p.usedCount = p.usageLimit - 1

\* C19: however the applyPromoCode requests on a promotion interleave, its
\* usedCount is the number of requests answered 200 so far: no increment is
\* lost.
C19_NoLostUpdate ==
    \A p \in promotions : p.usedCount = Cardinality(Succeeded)

\* Every caller has been answered; two requests that read the same count
\* both succeeded and both uses are counted.
C19_Witness ==
    /\ \A c \in Callers : calls[c].pc = "done"
    /\ \E c, d \in Succeeded : c # d /\ calls[c].snap = calls[d].snap
    /\ \E p \in promotions : p.usedCount = Cardinality(Succeeded)

\* The stored state the promo-code endpoints could touch.
Stored == <<promotions, notifications, users>>

\* C20: the usedCount of a promotion changes only in the step in which an
\* applyPromoCode is answered 200, and then by exactly one; validatePromoCode
\* changes no stored state, and neither does an applyPromoCode that is
\* rejected (400 or 404).
C20_UsedCountFrame ==
    [][/\ \A p \in promotions : \A r \in promotions' :
            (r.promoCode = p.promoCode /\ r.usedCount # p.usedCount) =>
               /\ r.usedCount = p.usedCount + 1
               /\ \E c \in Callers : ApplyAnswered(c) /\ calls'[c].status = 200
       /\ \A c \in Callers :
            (calls[c].pc = "idle" /\ calls'[c].op = "validate") =>
               UNCHANGED Stored
       /\ \A c \in Callers :
            (ApplyAnswered(c) /\ calls'[c].status # 200) =>
               /\ calls'[c].status \in {400, 404}
               /\ UNCHANGED Stored]_vars

C20_Witness ==
    /\ calls[1].op = "validate" /\ calls[1].status = 200
    /\ calls[2].op = "apply" /\ calls[2].status = 404 /\ calls[2].code = "NOPE"
    /\ calls[3].op = "apply" /\ calls[3].status = 200
    /\ \E p \in promotions : p.usedCount = 1

(***************************************************************************)
(* Properties of the creation and update of promotions.                    *)
(***************************************************************************)
\* A createPromotion request of an admin whose body has every required field.
CompleteBody(r) ==
    /\ r.op = "createPromotion" /\ UserRole(r.actor) = "admin"
    /\ r.body.title /\ r.body.promoCode # NULL /\ r.body.discountType # NULL
    /\ r.body.discountValue # 0 /\ r.body.usageLimit # 0
    /\ r.body.startDate # 0 /\ r.body.endDate # 0

\* C21: createPromotion answers 400 to a body with startDate >= endDate or
\* with endDate before the current time, and then creates no promotion and
\* no notification and sends no e-mail and no event; every promotion it
\* creates has startDate < endDate and endDate not before the time of its
\* creation.
C21_DateValidation ==
    [][/\ (/\ CompleteBody(req')
           /\ (\/ req'.body.startDate >= req'.body.endDate
               \/ req'.body.endDate < now)) =>
             /\ res'.status = 400
             /\ promotions' = promotions /\ notifications' = notifications
             /\ emits' = <<>> /\ mails' = {}
       /\ \A p \in promotions' \ promotions :
            p.startDate < p.endDate /\ p.endDate >= now]_vars

C21_Witness ==
    /\ CompleteBody(req) /\ res.status = 400
    /\ req.body.startDate < req.body.endDate /\ req.body.endDate < now
    /\ \E p \in promotions : p.startDate < p.endDate

\* C22 (counterexample): in every reachable state every stored promotion has
\* startDate < endDate, whatever createPromotion and updatePromotion requests
\* came before, updates that give one date only included.
C22_StartBeforeEnd == \A p \in promotions : p.startDate < p.endDate

\* What does hold: createPromotion stores start < end, and so does an update
\* whose body gives both dates.
C22_OrderedWhenBothGiven ==
    [][/\ req'.op = "createPromotion" =>
            \A p \in promotions' \ promotions : p.startDate < p.endDate
       /\ \A p \in promotions' \ promotions :
            (\E q \in promotions : q.promoCode = p.promoCode
                 /\ q.startDate # p.startDate /\ q.endDate # p.endDate) =>
               p.startDate < p.endDate]_vars

\* The callers whose createPromotion stored a promotion with the given code.
Winners(code) ==
    {c \in Callers : calls[c].op = "create" /\ calls[c].status = 201
                     /\ Normalize(calls[c].code) = code}

\* C23: however createPromotion requests with the same code interleave, at
\* most one promotion with that code is stored and at most one request is
\* answered 201 for it; a request that passed the pre-check and loses the
\* insert is answered 409, stores nothing and starts no fan-out.
C23_UniqueUnderRace ==
    /\ [](/\ \A p, q \in promotions : p.promoCode = q.promoCode => p = q
          /\ creates = Cardinality(promotions)
          /\ \A c \in Callers :
               calls[c].op = "create" =>
                 Cardinality(Winners(Normalize(calls[c].code))) <= 1)
    /\ [][\A c \in Callers :
            (/\ calls[c].pc = "insert" /\ calls'[c].pc = "done"
             /\ \E p \in promotions : p.promoCode = Normalize(calls[c].code)) =>
               /\ calls'[c].status = 409
               /\ UNCHANGED <<promotions, notifications, emits, mails, report>>]_vars

\* Two requests with the same code both passed the pre-check; one stored the
\* promotion, the other was answered 409 by the catch block.
C23_Witness ==
    /\ \E c, d \in Callers :
         /\ calls[c].op = "create" /\ calls[d].op = "create"
         /\ calls[c].status = 201
         /\ calls[d].status = 409 /\ calls[d].snap # {}
         /\ Normalize(calls[c].code) = Normalize(calls[d].code)
         /\ calls[c].code # calls[d].code
    /\ Cardinality(promotions) = 1

\* A createPromotion step that stored a promotion for the audience "all" and
\* whose fan-out lost no lookup and no write.
AllFanoutStep ==
    /\ req'.op = "createPromotion"
    /\ res'.status = 201
    /\ req'.body.targetAudience = "all"
    /\ ~req'.fail.lookup
    /\ req'.fail.writes = {}

\* C24 (counterexample): the fan-out of a promotion with the audience "all"
\* stores exactly one notification, with recipient null, and not one per user.
C24_AllAudienceOneBroadcast ==
    [][AllFanoutStep =>
         /\ Cardinality(NewNotifications) = 1
         /\ \A n \in NewNotifications : n.recipient = NULL]_vars

\* What the fan-out does for the audience "all": one notification for each
\* user the lookup returns, addressed to that user, and no broadcast record.
C24_AllAudiencePerUser ==
    [][(AllFanoutStep /\ users # {}) =>
         /\ Cardinality(NewNotifications) = Cardinality(users)
         /\ \A u \in users :
              Cardinality({n \in NewNotifications : n.recipient = u}) = 1
         /\ \A n \in NewNotifications : n.recipient # NULL]_vars

\* A step of either fan-out for a role audience that is answered 201 and lost
\* no lookup and no write.
RoleResolutionStep ==
    /\ req'.op \in {"createNotification", "createPromotion"}
    /\ res'.status = 201
    /\ req'.recipient = NULL
    /\ req'.audience \in {"buyers", "sellers", "dealers"}
    /\ ~req'.fail.lookup
    /\ req'.fail.writes = {}

\* C25 (counterexample): createNotification and the promotion fan-out resolve
\* an audience to the same role: buyers and sellers to one role, dealers to
\* another.  Every notification of the fan-out goes to an account of that
\* role, every active verified account of that role gets one, and an event
\* on a role channel goes to the channel of that role.
C25_SameResolution ==
    [][RoleResolutionStep =>
         LET role == RoleMap(req'.audience)
             sent == {n \in NewNotifications : n.type # "warning"}
         IN /\ RoleMap("buyers") = RoleMap("sellers")
            /\ RoleMap("dealers") # RoleMap("buyers")
            /\ \A n \in sent : UserRole(n.recipient) = role
            /\ \A u \in NotificationMembers(req'.audience) :
                 \E n \in sent : n.recipient = u
            /\ \A k \in 1..Len(emits') :
                 emits'[k].room = "role" => emits'[k].key = role]_vars

\* The same for createNotification alone, which does resolve the audiences so.
C25_CreateNotificationResolution ==
    [][(RoleResolutionStep /\ req'.op = "createNotification") =>
         LET role == RoleMap(req'.audience)
         IN /\ \A n \in NewNotifications : UserRole(n.recipient) = role
            /\ \A u \in NotificationMembers(req'.audience) :
                 \E n \in NewNotifications : n.recipient = u]_vars

\* The stored records a step leaves for the record n.
After(n) == {m \in notifications' : m.id = n.id}

\* C26 as stated (counterexample): a stored notification changes only by its
\* read flag going from false to true.
C26_Original ==
    [][\A n \in notifications : \A m \in After(n) :
         m # n => (~n.isRead /\ m.isRead)]_vars

\* C26: a stored notification changes only in markAsRead and markAllAsRead,
\* and only in isRead, which becomes true, and readAt, which is stamped with
\* the time of the request; marking a record that is read stamps it again.
\* No step makes a read record unread.  A record leaves the store only in a
\* deleteNotification of an admin for its identifier that is answered 200;
\* the deleteNotification of another user is answered 403 and removes nothing.
C26_ReadOnlyForward ==
    [][/\ \A n \in notifications :
            /\ After(n) = {} =>
                 /\ req'.op = "deleteNotification"
                 /\ UserRole(req'.actor) = "admin"
                 /\ req'.id = n.id
                 /\ res'.status = 200
            /\ \A m \in After(n) :
                 /\ n.isRead => m.isRead
                 /\ m # n =>
                      /\ req'.op \in {"markAsRead", "markAllAsRead"}
                      /\ m = [n EXCEPT !.isRead = TRUE, !.readAt = now]
       /\ (req'.op = "deleteNotification" /\ UserRole(req'.actor) # "admin") =>
            /\ res'.status = 403
            /\ notifications' = notifications]_vars

\* A record was read, and the deleteNotification of the dealer for it was
\* rejected, the record staying in the store.
C26_Witness ==
    /\ req.op = "deleteNotification"
    /\ UserRole(req.actor) # "admin"
    /\ res.status = 403
    /\ \E n \in notifications : n.id = req.id /\ n.isRead /\ n.readAt > 0

\* C27: within one request of either fan-out, an event is emitted only in
\* the emission stage, when every write and every e-mail send the request
\* started has settled; with io at hand and no emission throwing the stage
\* emits whatever became of the e-mails; the response 201 goes out only from
\* the stage after the emission, which is entered from the emission stage or,
\* in the promotion fan-out, from its early returns (empty audience, failed
\* lookup), and no event is emitted once the request is answered.
C27_StagesOrdered ==
    [][/\ (emits' # emits /\ Len(emits') > 0) =>
            /\ calls[1].pc = "emitting"
            /\ calls[1].snap = {}
       /\ (calls[1].pc = "emitting" /\ calls'[1].pc # "emitting"
           /\ req.io /\ req'.fail.emit = -1) =>
            Len(emits') > 0
       /\ (res'.status = 201 /\ res.status # 201) => calls[1].pc = "respond"
       /\ (calls'[1].pc = "respond" /\ calls[1].pc # "respond") =>
            \/ calls[1].pc = "emitting"
            \/ /\ req'.op = "createPromotion"
               /\ (req'.fail.lookup \/ Len(TargetUsers(req'.audience)) = 0)
       /\ res.status # 0 => (emits' = emits \/ emits' = <<>>)]_vars

\* A promotion whose only e-mail send failed: the event went out all the
\* same, after the write and the send, and the request was answered 201.
C27_Witness ==
    /\ req.op = "createPromotion"
    /\ calls[1].pc = "done"
    /\ res.status = 201
    /\ req.mail /\ req.fail.sends # {} /\ mails = {}
    /\ Len(emits) > 0
    /\ \E n \in notifications : n.type = "promotion"

\* C28 (counterexample): one source event, a promotion created or an admin
\* notification issued, never stores more notifications than the cap of the
\* lookup, whatever the size of the audience, and is answered 201 when the
\* audience is larger than the cap.
C28_FanoutCapped ==
    [][/\ nextId' - nextId <= LookupLimit
       /\ req'.op \in {"createNotification", "createPromotion"} =>
            res'.status \in {201, 400}]_vars

\* The promotion fan-out alone is capped: an audience larger than the cap is
\* cut to the cap and the request is answered 201.
C28_PromotionCapped ==
    [][req'.op = "createPromotion" =>
         /\ nextId' - nextId <= LookupLimit
         /\ res'.status = 201]_vars

\* C30: createNotification for a role audience that no active verified
\* account matches is answered 400, stores nothing and emits nothing.  The
\* fan-out of a promotion whose audience no account matches stores exactly
\* one notification, a warning addressed to the admin who created the
\* promotion (when that write is not rejected), sends no e-mail and emits no
\* event, and the promotion is stored and answered 201.
C30_EmptyAudience ==
    [][/\ (/\ RoleFanoutStep
           /\ NotificationMembers(req'.audience) = {}) =>
            /\ res'.status = 400
            /\ notifications' = notifications
            /\ emits' = <<>>
       /\ (/\ req'.op = "createPromotion"
           /\ promotions' # promotions
           /\ req'.audience \in {"buyers", "sellers", "dealers"}
           /\ PromotionMembers(req'.audience) = {}
           /\ ~req'.fail.lookup
           /\ req'.fail.writes = {}) =>
            /\ res'.status = 201
            /\ Cardinality(NewNotifications) = 1
            /\ \A n \in NewNotifications :
                 /\ n.type = "warning"
                 /\ n.recipient = req'.actor
            /\ mails' = {}
            /\ emits' = <<>>]_vars

\* A promotion for an audience without members left its warning to the
\* admin, and a createNotification for a role audience without members has
\* just been answered 400.
C30_Witness ==
    /\ req.op = "createNotification"
    /\ req.audience \in RoleAudiences
    /\ ~req.fail.lookup
    /\ NotificationMembers(req.audience) = {}
    /\ res.status = 400
    /\ \E n \in notifications : n.type = "warning" /\ n.recipient = "a1"
    /\ promotions # {}

\* A step in which the bell receives an event.
ReceiveStep == req' = req /\ Len(emits') = Len(emits) - 1

====
